---- MODULE Spec2Model ----
(***************************************************************************)
(* A model of weatherflash.py: the histogram routine                       *)
(* WeatherFlash.create_hist with its numeric helpers (order_of_mag,        *)
(* roundn), and the dashboard's two event handlers (update_station_input,  *)
(* update_date_input) around read_data and create_content.                 *)
(*                                                                         *)
(* Numbers.  The program computes in floating point; the model computes    *)
(* exactly, in fixed point: a value x is held as the integer x * Unit.     *)
(* Unit = 600 makes every quantity the routine derives from the values     *)
(* used here an integer: base = 5 * 10^oom for oom >= -2, the steps        *)
(* base/3 and base/2, and the 0.01 nudge.  A bin count c is held exactly;  *)
(* the frequency-axis limit ymax + ymax/5 is held in fifths of a count.    *)
(* NaN (an undefined observation) is a value outside the range of data.    *)
(* Floating point can round a quotient across an integer (0.3 / 0.05 is    *)
(* 5.999...), which exact arithmetic does not show; the values used here   *)
(* are ones for which the program's rounded limits and its number of       *)
(* edges are those of exact arithmetic.                                    *)
(***************************************************************************)
EXTENDS Integers, Sequences, FiniteSets, TLC

Unit == 6 * 100

NaN == -1000000000

FifthsPerCount == 5

IsNaN(x) == x = NaN

Abs(x) == IF x < 0 THEN -x ELSE x

\* floor(a / b) and ceil(a / b) for b > 0, as np.floor and np.ceil of a quotient
FloorDiv(a, b) == a \div b

CeilDiv(a, b) == -((-a) \div b)

\* F(x), with x evaluated once and then used as a value
Let1(x, F(_)) == CHOOSE r \in {F(y) : y \in {x}} : TRUE

\* the largest element of a non-empty sequence of integers (ndarray.max())
SeqMax(s) ==
    LET Largest(t) ==
            CHOOSE x \in {t[k] : k \in 1..Len(t)} : \A j \in 1..Len(t) : t[j] <= x
    IN  Let1(s, Largest)

----------------------------------------------------------------------------
(* order_of_mag, roundn *)

RECURSIVE FloorLog10(_)
\* np.floor(np.log10(a)) for a > 0 (a in fixed point)
FloorLog10(a) ==
    IF a >= 10 * Unit THEN FloorLog10(a \div 10) + 1
    ELSE IF a < Unit THEN FloorLog10(a * 10) - 1
    ELSE 0

\* order_of_mag(x): 0 for x == 0, else floor(log10(|x|)); an integer
order_of_mag(x) == IF x = 0 THEN 0 ELSE FloorLog10(Abs(x))

RECURSIVE IntPow10(_)
IntPow10(n) == IF n = 0 THEN 1 ELSE 10 * IntPow10(n - 1)

\* 10 ** oom in fixed point (exact for oom >= -2)
Pow10(oom) == IF oom >= 0 THEN Unit * IntPow10(oom) ELSE Unit \div IntPow10(-oom)

\* np.log10(scale) in fixed point, for scale a power of ten
Log10(scale) == FloorLog10(scale) * Unit

\* scale = 10 ** oom; if oom > 0: scale = np.log10(scale)
Scale(oom) == IF oom > 0 THEN Log10(Pow10(oom)) ELSE Pow10(oom)

\* base = scale * 5, with oom = order_of_mag(var_max) - 1
Base(var_max) == Scale(order_of_mag(var_max) - 1) * 5

\* roundn(x, base, method)
roundn(x, base, method) ==
    IF method = "up" THEN CeilDiv(x, base) * base
    ELSE IF method = "down" THEN FloorDiv(x, base) * base
    ELSE LET q == FloorDiv(2 * x + base, 2 * base)
             tie == (2 * x + base) % (2 * base) = 0
         IN  (IF tie /\ q % 2 = 1 THEN q - 1 ELSE q) * base

----------------------------------------------------------------------------
(* The series handed to create_hist: df_sel is a sequence of rows, one per  *)
(* day, [day |-> d, vals |-> <<v_1, ..., v_n>>], with vals[i] the value of  *)
(* column columns[i].  A column name is the sequence of its                 *)
(* whitespace-separated tokens, which is what var.split() returns.          *)

\* ColIndex with a default instead of the ValueError: the first column
ColIndexOrFirst(columns, var) ==
    IF \E i \in 1..Len(columns) : columns[i] = var
    THEN (CHOOSE i \in 1..Len(columns) :
              columns[i] = var /\ \A j \in 1..(i - 1) : columns[j] # var) - 1
    ELSE 0

\* list(df_sel.columns).index(var): 0-based; -1 stands for the ValueError
ColIndex(columns, var) ==
    IF \E i \in 1..Len(columns) : columns[i] = var
    THEN (CHOOSE i \in 1..Len(columns) :
              columns[i] = var /\ \A j \in 1..(i - 1) : columns[j] # var) - 1
    ELSE -1

\* the paired column of col_ind: the next one for an even index, else the
\* previous one (0-based)
VarRefIndex(col_ind) == IF col_ind % 2 = 0 THEN col_ind + 1 ELSE col_ind - 1

\* df_sel[name].values for the column at 0-based index ci
ColumnValues(df_sel, ci) == [r \in 1..Len(df_sel) |-> df_sel[r].vals[ci + 1]]

\* the defined values of the two columns
PairValues(df_sel, ci, cj) ==
    {df_sel[r].vals[ci + 1] : r \in 1..Len(df_sel)} \cup
    {df_sel[r].vals[cj + 1] : r \in 1..Len(df_sel)}

\* df_sel[[var, var_ref]].min().min(): NaN entries are skipped; NaN if none
PairMin(df_sel, ci, cj) ==
    LET d == PairValues(df_sel, ci, cj) \ {NaN}
    IN  IF d = {} THEN NaN ELSE CHOOSE x \in d : \A y \in d : x <= y

\* df_sel[[var, var_ref]].max().max()
PairMax(df_sel, ci, cj) ==
    LET d == PairValues(df_sel, ci, cj) \ {NaN}
    IN  IF d = {} THEN NaN ELSE CHOOSE x \in d : \A y \in d : x >= y

\* np.arange(start, stop, step): start + i * step for i < ceil((stop-start)/step)
Arange(start, stop, step) ==
    LET n == IF stop > start THEN CeilDiv(stop - start, step) ELSE 0
    IN  [i \in 1..n |-> start + (i - 1) * step]

\* the bin edges: the step is base/3, base/2 or base by the number of
\* multiples of base between the rounded limits
VarBins(var_min, var_max, base) ==
    IF var_max - var_min <= 7 * base
    THEN Arange(var_min, var_max, base \div 3)
    ELSE IF var_max - var_min <= 14 * base
    THEN Arange(var_min, var_max, base \div 2)
    ELSE Arange(var_min, var_max, base)

\* if var_max == var_min: var_max += 0.01
Nudge(var_min, var_max) ==
    IF var_max = var_min THEN var_max + Unit \div 100 ELSE var_max

\* Xlim without the padding of base / 3
XlimUnpadded(var_min, var_max, base) == <<var_min, var_max>>

\* xlim = var_min - base / 3, var_max + base / 3
Xlim(var_min, var_max, base) == <<var_min - base \div 3, var_max + base \div 3>>

\* np.histogram(a, bins=bins)[0]: bin k is [bins[k], bins[k+1]), the last
\* bin also holds its right edge; NaN and values outside are not counted
Histogram(a, bins) ==
    LET Count(ab) ==
            LET nb == IF Len(ab[2]) > 0 THEN Len(ab[2]) - 1 ELSE 0
                In(v, k) ==
                    /\ ~IsNaN(v)
                    /\ ab[2][k] <= v
                    /\ (v < ab[2][k + 1] \/ (k = nb /\ v = ab[2][k + 1]))
            IN  [k \in 1..nb |->
                    Cardinality({r \in 1..Len(ab[1]) : In(ab[1][r], k)})]
    IN  Let1(<<a, bins>>, Count)

\* Ymax from the field's own histogram alone
YmaxOwnField(var_freq, var_ref_freq) == SeqMax(var_freq)

\* ymax = max(var_freq.max(), var_ref_freq.max())
Ymax(var_freq, var_ref_freq) ==
    LET Larger(m) == IF m[1] > m[2] THEN m[1] ELSE m[2]
    IN  Let1(<<SeqMax(var_freq), SeqMax(var_ref_freq)>>, Larger)

\* ylim = (0, ymax + ymax / 5), in fifths of a count
Ylim(ymax) == <<0, FifthsPerCount * ymax + ymax>>

\* '.2f' formatting of a value: hundredths, rounded half to even
Fmt2f(x) ==
    LET h == Unit \div 100
        q == FloorDiv(2 * x + h, 2 * h)
        tie == (2 * x + h) % (2 * h) = 0
    IN  IF tie /\ q % 2 = 1 THEN q - 1 ELSE q

\* var_split[:-1] (var_field) and var_split[-1] (var_units)
VarField(var) == SubSeq(var, 1, Len(var) - 1)

VarUnits(var) == var[Len(var)]

\* RawLabel with the units dropped (label = var_field)
RawLabelFieldOnly(var) == [text |-> VarField(var), val |-> NaN]

\* label = var: the title is the field name itself, no value
RawLabel(var) == [text |-> var, val |-> NaN]

\* label = f'{var_field}: {var_sel:.2f} {var_units}'
FormattedLabel(var, var_sel) ==
    [text |-> VarField(var) \o <<":", "{:.2f}", VarUnits(var)>>,
     val |-> Fmt2f(var_sel)]

\* the days of the rows of df_sel with day = date (df_sel.loc[date, var])
RowsAt(df_sel, date) == {r \in 1..Len(df_sel) : df_sel[r].day = date}

\* np.where(var_edge <= var_sel)[0][-1], stepped back by one from the last
\* edge index (0-based); -1 stands for the IndexError of an empty np.where
VarInd(var_edge, var_sel) ==
    LET le == {k \in 1..Len(var_edge) : var_edge[k] <= var_sel}
    IN  IF le = {} THEN -1
        ELSE LET var_ind == (CHOOSE k \in le : \A j \in le : j <= k) - 1
             IN  IF var_ind = Len(var_edge) - 1 THEN var_ind - 1 ELSE var_ind

\* var_edge[var_ind:var_ind + 2], the limits of the highlighted slice
VarSlice(var_edge, var_ind) ==
    IF var_ind >= 0 /\ var_ind + 2 <= Len(var_edge)
    THEN <<var_edge[var_ind + 1], var_edge[var_ind + 2]>>
    ELSE <<>>

\* what a call of create_hist leaves behind: the exception it raised
\* ("none": it returned the plot) and the values it computed until then
NoPlot ==
    [exc |-> "none", var_ref |-> <<>>, var_bins |-> <<>>, xlim |-> <<>>,
     ylim |-> <<>>, var_freq |-> <<>>, var_ref_freq |-> <<>>, var_sel |-> NaN,
     hlgt |-> <<>>, title |-> RawLabel(<<>>), nodata |-> FALSE]

\* lines 199-223: the highlight of the selected date, the title, 'Data N/A'
\* (p: what lines 147-197 left behind)
Highlight(df_sel, var, col_ind, date, p) ==
    LET rows == RowsAt(df_sel, date)
        At(var_sel) ==
            LET var_ind == VarInd(p.var_bins, var_sel)
                nodata == SeqMax(p.var_freq) = 0
            IN  IF IsNaN(var_sel)
                THEN [p EXCEPT !.title = RawLabel(var), !.nodata = nodata]
                ELSE IF var_ind < 0
                THEN [p EXCEPT !.exc = "IndexError", !.var_sel = var_sel]
                ELSE [p EXCEPT !.var_sel = var_sel,
                               !.hlgt = VarSlice(p.var_bins, var_ind),
                               !.title = FormattedLabel(var, var_sel),
                               !.nodata = nodata]
    IN  IF rows = {} THEN [p EXCEPT !.exc = "KeyError"]
        ELSE Let1(df_sel[CHOOSE r \in rows : TRUE].vals[col_ind + 1], At)

\* lines 156-188: the bins, the axis limits and the two frequency arrays
Binning(df_sel, col_ind, ref_ind, p) ==
    LET Freqs(q) ==
            LET WithFreqs(fr) ==
                    LET r == [q EXCEPT !.var_freq = fr[1], !.var_ref_freq = fr[2]]
                    IN  IF Len(fr[1]) = 0
                        THEN [r EXCEPT !.exc = "ValueError"]  \* max of no bins
                        ELSE [r EXCEPT !.ylim = Ylim(Ymax(fr[1], fr[2]))]
            IN  Let1(<<Histogram(ColumnValues(df_sel, col_ind), q.var_bins),
                       Histogram(ColumnValues(df_sel, ref_ind), q.var_bins)>>,
                     WithFreqs)
        Limits(raw) ==
            LET base == Base(raw[2])
                var_min == roundn(raw[1], base, "down")
                up == roundn(raw[2], base, "up")
                var_max == IF up < Unit THEN Unit ELSE up
            IN  IF IsNaN(raw[2])
                THEN [p EXCEPT !.exc = "ValueError"]  \* np.arange of NaN limits
                ELSE Let1([p EXCEPT
                              !.var_bins = VarBins(var_min, var_max, base),
                              !.xlim = Xlim(var_min, Nudge(var_min, var_max), base)],
                          Freqs)
    IN  Let1(<<PairMin(df_sel, col_ind, ref_ind), PairMax(df_sel, col_ind, ref_ind)>>,
             Limits)

\* create_hist(df_sel, var), with the frame's columns and self.datetime = date
create_hist(df_sel, columns, var, date) ==
    LET col_ind == ColIndex(columns, var)
        ref_ind == VarRefIndex(col_ind)
        Rest(p) == IF p.exc # "none" THEN p
                   ELSE Highlight(df_sel, var, col_ind, date, p)
    IN  IF col_ind < 0 THEN [NoPlot EXCEPT !.exc = "ValueError"]
        ELSE IF ref_ind >= Len(columns) THEN [NoPlot EXCEPT !.exc = "IndexError"]
        ELSE Let1(Binning(df_sel, col_ind, ref_ind,
                          [NoPlot EXCEPT !.var_ref = columns[ref_ind + 1]]),
                  Rest)

----------------------------------------------------------------------------
(* The dashboard.  Two stations stand for df_meta; each station's daily    *)
(* file is a fixed series over the first two field pairs of the frame      *)
(* (Min/Max Temp F, Precip In/Snow In).  A day is a day number; two days   *)
(* have the same month and day when they differ by whole years of 365      *)
(* days.  The highlights box is not part of the state: of                  *)
(* create_highlights, only the row lookup, which can raise, is kept.       *)

Fields ==
    << <<"Min", "Temp", "F">>, <<"Max", "Temp", "F">>,
       <<"Precip", "In">>, <<"Snow", "In">> >>

Stations == {"CMI", "ORD"}

\* self.stations: the station ids and their lower-case forms
StationOptions == Stations \cup {"cmi", "ord"}

\* station.upper()
Upper(station) ==
    IF station = "cmi" THEN "CMI" ELSE IF station = "ord" THEN "ORD" ELSE station

\* the name df_meta holds for a station id
NameOf(stid) == <<"name", stid>>

\* one row of a station's file: temperatures in degrees, precipitation and
\* snow in hundredths of an inch (NaN kept)
Obs(day, tmin, tmax, pcp, snow) ==
    LET H(x) == IF IsNaN(x) THEN NaN ELSE x * (Unit \div 100)
    IN  [day |-> day, vals |-> <<tmin * Unit, tmax * Unit, H(pcp), H(snow)>>]

\* the frame read_data builds from the station's file: ordered by day, first
\* column never NaN, no negative precipitation or snow
StationData(stid) ==
    IF stid = "CMI"
    THEN << Obs(1, 70, 80, 0, NaN), Obs(340, 60, 75, 32, 0),
            Obs(366, 72, 85, 150, NaN), Obs(376, 71, 90, 120, 0) >>
    ELSE << Obs(1, 30, 40, NaN, NaN), Obs(366, 35, 45, 0, 0),
            Obs(376, 20, 35, 50, 200) >>

\* the dates the date picker is given
Dates == {1, 200, 340, 366, 376}

\* df.index.max()
IndexMax(df) == df[Len(df)].day

\* df_sel.index.min()
IndexMin(df_sel) == IF Len(df_sel) = 0 THEN NaN ELSE df_sel[1].day

\* strftime('%m-%d') of a day, as the day's place in its year
MonthDay(day) == day % 365

Labels ==
    <<"Past Years", "Past 365 Days", "Past 90 Days", "Past 30 Days", "Past 14 Days">>

WindowDays == <<365, 90, 30, 14>>

\* df_sels[i - 1]: the rows of the same month and day, then the rows of the
\* last 365, 90, 30, 14 days up to self.datetime
DfSel(df, datetime, i) ==
    LET SameDay(r) == MonthDay(r.day) = MonthDay(datetime)
        InWindow(r) == /\ r.day >= datetime - WindowDays[i - 1]
                       /\ r.day <= datetime
    IN  IF i = 1 THEN SelectSeq(df, SameDay) ELSE SelectSeq(df, InWindow)

\* create_highlights(label, df_sel): df_sel.loc[self.datetime] for the
\* 'Past Years' label; the exception it raises, or "none"
create_highlights(i, df_sel, datetime) ==
    IF i = 1 /\ RowsAt(df_sel, datetime) = {} THEN "KeyError" ELSE "none"

\* the plots of one tab: create_hist of every field, in order
Plots(df_sel, datetime) ==
    [f \in 1..Len(Fields) |-> create_hist(df_sel, Fields, Fields[f], datetime)]

\* the first exception among the plots of a tab, or "none"
PlotsExc(plots) ==
    LET bad == {f \in 1..Len(plots) : plots[f].exc # "none"}
    IN  IF bad = {} THEN "none"
        ELSE plots[CHOOSE f \in bad : \A g \in bad : f <= g].exc

\* one pass of the loop of create_content (lines 366-390): the exception it
\* raises, or "none" and the tab item it appends
TabItem(df, datetime, name, station, i) ==
    LET Pass(df_sel) ==
            LET hl == create_highlights(i, df_sel, datetime)
                Item(plots) ==
                    [exc |-> IF hl # "none" THEN hl ELSE PlotsExc(plots),
                     item |-> [label |-> Labels[i],
                               title |-> [name |-> name, station |-> station,
                                          since |-> IF i = 1 THEN 0
                                                    ELSE IndexMin(df_sel),
                                          datetime |-> datetime],
                               plots |-> plots]]
            IN  Let1(Plots(df_sel, datetime), Item)
    IN  Let1(DfSel(df, datetime, i), Pass)

\* create_content run to its end: the five tab items, when no pass raises
TabItems(df, datetime, name, station) ==
    [i \in 1..Len(Labels) |-> TabItem(df, datetime, name, station, i).item]

\* whether create_content returns for this frame and date
ContentReturns(df, datetime) ==
    \A i \in 1..Len(Labels) : TabItem(df, datetime, <<>>, "", i).exc = "none"

----------------------------------------------------------------------------
VARIABLES
    station_input,    \* self.station_input.value
    date_input,       \* self.date_input.value
    name,             \* self.name
    df,               \* self.df
    datetime,         \* self.datetime
    tabs,             \* the items of self.tabs
    progress_active,  \* self.progress.active
    bar_color,        \* self.progress.bar_color
    handler,          \* the handler that is running: "none", "station", "date"
    pc,               \* its position
    tab_items,        \* create_content's local list
    e,                \* the exception the handler caught, or "none"
    df_sel,           \* a call of create_hist on its own: the series,
    columns,          \*   its columns,
    var,              \*   the field asked for,
    sel_date,         \*   self.datetime at the call,
    plot,             \*   what the call left behind,
    called            \*   and whether it was made

appvars ==
    <<station_input, date_input, name, df, datetime, tabs, progress_active,
      bar_color, handler, pc, tab_items, e>>

histvars == <<df_sel, columns, var, sel_date, plot, called>>

vars == <<appvars, histvars>>

\* view(): station 'CMI' read, the date its last day, the progress bar at
\* rest, the tabs filled by create_content (which must have returned)
AppInit ==
    /\ station_input = "CMI"
    /\ name = NameOf("CMI")
    /\ df = StationData("CMI")
    /\ datetime = IndexMax(StationData("CMI"))
    /\ date_input = IndexMax(StationData("CMI"))
    /\ ContentReturns(df, datetime)
    /\ tabs = TabItems(df, datetime, name, station_input)
    /\ progress_active = FALSE
    /\ bar_color = "secondary"
    /\ handler = "none"
    /\ pc = "idle"
    /\ tab_items = <<>>
    /\ e = "none"

\* no call of create_hist on its own
HistIdle ==
    /\ df_sel = <<>>
    /\ columns = <<>>
    /\ var = <<>>
    /\ sel_date = 0
    /\ plot = NoPlot
    /\ called = FALSE

Init == AppInit /\ HistIdle

\* the station widget changes to another option: update_station_input starts
\* (line 394)
StationChange ==
    /\ pc = "idle"
    /\ \E s \in StationOptions \ {station_input} : station_input' = s
    /\ progress_active' = TRUE
    /\ handler' = "station"
    /\ e' = "none"
    /\ pc' = "try"
    /\ UNCHANGED <<date_input, name, df, datetime, tabs, bar_color, tab_items>>
    /\ UNCHANGED histvars

\* the date picker changes to another date: update_date_input starts (line 405)
DateChange ==
    /\ pc = "idle"
    /\ \E d \in Dates \ {date_input} : date_input' = d
    /\ progress_active' = TRUE
    /\ handler' = "date"
    /\ e' = "none"
    /\ pc' = "try"
    /\ UNCHANGED <<station_input, name, df, datetime, tabs, bar_color, tab_items>>
    /\ UNCHANGED histvars

\* self.progress.bar_color = 'warning' (lines 396, 407)
SetWarning ==
    /\ pc = "try"
    /\ bar_color' = "warning"
    /\ pc' = "work"
    /\ UNCHANGED <<station_input, date_input, name, df, datetime, tabs,
                   progress_active, handler, tab_items, e>>
    /\ UNCHANGED histvars

\* self.read_data(event.new) (line 397): the name is set from df_meta, then
\* the file is fetched, which the network may fail
ReadData ==
    /\ pc = "work" /\ handler = "station"
    /\ name' = NameOf(Upper(station_input))
    /\ \/ /\ df' = StationData(Upper(station_input))
          /\ pc' = "content"
          /\ e' = e
       \/ /\ df' = df
          /\ e' = "URLError"
          /\ pc' = "except"
    /\ UNCHANGED <<station_input, date_input, datetime, tabs, progress_active,
                   bar_color, handler, tab_items>>
    /\ UNCHANGED histvars

\* self.datetime = pd.to_datetime(event.new) (line 408)
SetDatetime ==
    /\ pc = "work" /\ handler = "date"
    /\ datetime' = date_input
    /\ pc' = "content"
    /\ UNCHANGED <<station_input, date_input, name, df, tabs, progress_active,
                   bar_color, handler, tab_items, e>>
    /\ UNCHANGED histvars

\* create_content up to its loop (lines 353-364): tab_items = []
ContentBegin ==
    /\ pc = "content"
    /\ tab_items' = <<>>
    /\ pc' = "loop"
    /\ UNCHANGED <<station_input, date_input, name, df, datetime, tabs,
                   progress_active, bar_color, handler, e>>
    /\ UNCHANGED histvars

\* ContentPass with the assignment of line 391 inside the loop
ContentPassAssigning ==
    /\ pc = "loop" /\ Len(tab_items) < Len(Labels)
    /\ \E r \in {TabItem(df, datetime, name, station_input, Len(tab_items) + 1)} :
           IF r.exc = "none"
           THEN /\ tab_items' = Append(tab_items, r.item)
                /\ tabs' = Append(tab_items, r.item)
                /\ UNCHANGED <<pc, e>>
           ELSE /\ e' = r.exc
                /\ pc' = "except"
                /\ UNCHANGED <<tab_items, tabs>>
    /\ UNCHANGED <<station_input, date_input, name, df, datetime,
                   progress_active, bar_color, handler>>
    /\ UNCHANGED histvars

\* one pass of the loop (lines 365-390): the item is appended to tab_items,
\* or the pass raises and the handler's except clause is next
ContentPass ==
    /\ pc = "loop" /\ Len(tab_items) < Len(Labels)
    /\ \E r \in {TabItem(df, datetime, name, station_input, Len(tab_items) + 1)} :
           IF r.exc = "none"
           THEN /\ tab_items' = Append(tab_items, r.item)
                /\ UNCHANGED <<pc, e>>
           ELSE /\ e' = r.exc
                /\ pc' = "except"
                /\ UNCHANGED tab_items
    /\ UNCHANGED <<station_input, date_input, name, df, datetime, tabs,
                   progress_active, bar_color, handler>>
    /\ UNCHANGED histvars

\* self.tabs[:] = tab_items (line 391)
ContentAssign ==
    /\ pc = "loop" /\ Len(tab_items) = Len(Labels)
    /\ tabs' = tab_items
    /\ pc' = "else"
    /\ UNCHANGED <<station_input, date_input, name, df, datetime,
                   progress_active, bar_color, handler, tab_items, e>>
    /\ UNCHANGED histvars

\* self.progress.bar_color = 'secondary' (lines 399, 410)
SetSecondary ==
    /\ pc = "else"
    /\ bar_color' = "secondary"
    /\ pc' = "finally"
    /\ UNCHANGED <<station_input, date_input, name, df, datetime, tabs,
                   progress_active, handler, tab_items, e>>
    /\ UNCHANGED histvars

\* SetDanger with an except clause that leaves the colour alone
SetDangerSkipped ==
    /\ pc = "except"
    /\ pc' = "finally"
    /\ UNCHANGED <<station_input, date_input, name, df, datetime, tabs,
                   progress_active, bar_color, handler, tab_items, e>>
    /\ UNCHANGED histvars

\* except Exception as e: self.progress.bar_color = 'danger' (lines 400-401,
\* 411-412)
SetDanger ==
    /\ pc = "except"
    /\ bar_color' = "danger"
    /\ pc' = "finally"
    /\ UNCHANGED <<station_input, date_input, name, df, datetime, tabs,
                   progress_active, handler, tab_items, e>>
    /\ UNCHANGED histvars

\* self.progress.active = False, and the handler returns (lines 402, 413);
\* create_content's local list is gone
HandlerReturn ==
    /\ pc = "finally"
    /\ progress_active' = FALSE
    /\ handler' = "none"
    /\ pc' = "idle"
    /\ tab_items' = <<>>
    /\ UNCHANGED <<station_input, date_input, name, df, datetime, tabs,
                   bar_color, e>>
    /\ UNCHANGED histvars

Next ==
    \/ StationChange
    \/ DateChange
    \/ SetWarning
    \/ ReadData
    \/ SetDatetime
    \/ ContentBegin
    \/ ContentPass
    \/ ContentAssign
    \/ SetSecondary
    \/ SetDanger
    \/ HandlerReturn

Spec == Init /\ [][Next]_vars

----------------------------------------------------------------------------
(* create_hist on its own: every series of up to MaxRows days over one     *)
(* field pair, every field that may be asked for (one of them not a        *)
(* column of the series), every selected date (one of them not a day of    *)
(* the series).                                                            *)

MaxRows == 2

\* the values a day may hold for the first and for the second field
FieldValues == {NaN, -3 * Unit, 0, 70 * Unit, 74 * Unit}

PairedValues == {NaN, (32 * Unit) \div 100, 70 * Unit, 75 * Unit, 120 * Unit}

PairColumns == <<Fields[1], Fields[2]>>

HistInit ==
    /\ AppInit
    /\ columns = PairColumns
    /\ \E n \in 0..MaxRows :
          /\ \E v \in [1..n -> FieldValues \X PairedValues] :
                df_sel = [r \in 1..n |-> [day |-> r, vals |-> v[r]]]
          /\ sel_date \in 1..(n + 1)
    /\ var \in {Fields[1], Fields[2], Fields[3]}
    /\ plot = NoPlot
    /\ called = FALSE

\* the call: plot = self.create_hist(df_sel, var)
CreateHist ==
    /\ ~called
    /\ plot' = create_hist(df_sel, columns, var, sel_date)
    /\ called' = TRUE
    /\ UNCHANGED <<df_sel, columns, var, sel_date>>
    /\ UNCHANGED appvars

HistNext == CreateHist

SpecHist == HistInit /\ [][HistNext]_vars

----------------------------------------------------------------------------
(* The claims about create_hist, read off the call's inputs and what it    *)
(* left behind.                                                            *)

\* the field asked for is a column of the series
FieldPresent == \E i \in 1..Len(columns) : columns[i] = var

\* the place of the field among the columns, and of the column paired with it
FieldPos == CHOOSE i \in 1..Len(columns) : columns[i] = var

PairedPos == IF FieldPos % 2 = 1 THEN FieldPos + 1 ELSE FieldPos - 1

\* every value of the field and of its paired field is a number
AllNumeric ==
    \A r \in 1..Len(df_sel) :
        ~IsNaN(df_sel[r].vals[FieldPos]) /\ ~IsNaN(df_sel[r].vals[PairedPos])

\* the selected date is a day of the series
DateInSeries == \E r \in 1..Len(df_sel) : df_sel[r].day = sel_date

\* the field's value on the selected date
SelValue == df_sel[CHOOSE r \in 1..Len(df_sel) : df_sel[r].day = sel_date].vals[FieldPos]

\* a non-empty series of numbers with the field and the selected date in it
ValidNumericInput ==
    /\ FieldPresent
    /\ Len(df_sel) > 0
    /\ AllNumeric
    /\ DateInSeries

StrictlyIncreasing(s) == \A k \in 1..(Len(s) - 1) : s[k] < s[k + 1]

\* C1: for a non-empty series of numbers the generated bin edges are at
\* least two and strictly increasing, also when all values are one number
C1_EdgesAtLeastTwoIncreasing ==
    (called /\ FieldPresent /\ Len(df_sel) > 0 /\ AllNumeric)
        => (Len(plot.var_bins) >= 2 /\ StrictlyIncreasing(plot.var_bins))

\* C2: whenever create_hist computes ylim, ylim[1] > ylim[0], also when
\* every bin count of both fields is zero
C2_YlimUpperAboveLower ==
    (called /\ plot.ylim # <<>>) => plot.ylim[2] > plot.ylim[1]

\* C3: when the field's value v on the selected date is defined, the
\* highlighted bin contains it: edges[i] <= v <= edges[i+1]
C3_HighlightContainsValue ==
    (called /\ plot.exc = "none" /\ ~IsNaN(SelValue))
        => /\ Len(plot.hlgt) = 2
           /\ plot.hlgt[1] <= SelValue
           /\ SelValue <= plot.hlgt[2]

\* C4: for a valid non-empty series of numbers create_hist raises nothing,
\* zero-width range and all-zero data included
C4_ValidInputNeverRaises ==
    (called /\ ValidNumericInput) => plot.exc = "none"

\* C5: whenever create_hist produces edges, the value axis strictly encloses
\* them: xlim[0] < min(edges) <= max(edges) < xlim[1]
C5_XlimEnclosesEdges ==
    (called /\ Len(plot.var_bins) > 0)
        => /\ Len(plot.xlim) = 2
           /\ \A k \in 1..Len(plot.var_bins) :
                 plot.xlim[1] < plot.var_bins[k] /\ plot.var_bins[k] < plot.xlim[2]

\* a call that produced edges from limits forced apart (all-zero data)
C5_Witness ==
    /\ called
    /\ plot.exc = "none"
    /\ Len(plot.var_bins) > 2
    /\ \A r \in 1..Len(df_sel) : df_sel[r].vals = <<0, NaN>>

\* C6: in a plot create_hist returns, an undefined value on the selected
\* date means no highlighted bin and the field name itself as the title;
\* a highlight or a formatted title means the value is defined
C6_UndefinedValueNoHighlight ==
    (called /\ plot.exc = "none")
        => /\ IsNaN(SelValue) => (plot.hlgt = <<>> /\ plot.title = [text |-> var, val |-> NaN])
           /\ (plot.hlgt # <<>> \/ plot.title.text # var) => ~IsNaN(SelValue)

\* a returned plot for a date whose value is undefined
C6_Witness ==
    /\ called
    /\ plot.exc = "none"
    /\ IsNaN(SelValue)
    /\ plot.title.text = var

\* C7: create_hist on either field of a pair takes the other as reference
\* and gives the same edges, xlim and ylim; ylim's upper bound is 1.2 times
\* the larger of the two fields' largest bin counts
C7_PairOnIdenticalScales ==
    (called /\ FieldPresent)
        => LET other == create_hist(df_sel, columns, columns[PairedPos], sel_date)
               top == IF SeqMax(plot.var_freq) > SeqMax(other.var_freq)
                      THEN SeqMax(plot.var_freq) ELSE SeqMax(other.var_freq)
           IN  /\ plot.var_ref = columns[PairedPos]
               /\ other.var_ref = var
               /\ plot.var_bins = other.var_bins
               /\ plot.xlim = other.xlim
               /\ plot.ylim = other.ylim
               /\ plot.var_ref_freq = other.var_freq
               /\ plot.ylim # <<>> => 5 * plot.ylim[2] = 6 * FifthsPerCount * top

\* a returned plot whose paired field has the taller histogram
C7_Witness ==
    /\ called
    /\ plot.exc = "none"
    /\ SeqMax(plot.var_ref_freq) > SeqMax(plot.var_freq)
    /\ SeqMax(plot.var_freq) > 0

\* C8 as stated: a field that is no column fails with ConfigurationError,
\* an empty series with InsufficientDataError
C8_NamedErrors ==
    called => /\ ~FieldPresent => plot.exc = "ConfigurationError"
              /\ (FieldPresent /\ Len(df_sel) = 0) => plot.exc = "InsufficientDataError"

\* C8 as amended: a field that is no column fails with ValueError, and so
\* does an empty series that has the field and its pair
C8_BothFailWithValueError ==
    called => /\ ~FieldPresent => plot.exc = "ValueError"
              /\ (FieldPresent /\ Len(df_sel) = 0) => plot.exc = "ValueError"

\* a call for a field that is no column of a series of numbers
C8_Witness ==
    /\ called
    /\ ~FieldPresent
    /\ Len(df_sel) > 0
    /\ plot.exc = "ValueError"

----------------------------------------------------------------------------
(* The claims about the handlers. *)

\* C9: whenever a handler has returned, the progress indicator is inactive
\* and its colour is 'secondary' if the handler raised nothing, 'danger' if
\* it raised; never active, never 'warning'
C9_ProgressSettled ==
    pc = "idle"
        => /\ progress_active = FALSE
           /\ handler = "none"
           /\ bar_color = IF e = "none" THEN "secondary" ELSE "danger"

\* a handler returned after create_hist raised in create_content
C9_Witness ==
    /\ pc = "idle"
    /\ e = "ValueError"
    /\ bar_color = "danger"
    /\ ~progress_active

\* the tabs are the five window histograms of one station and one date
TabsComplete ==
    /\ Len(tabs) = Len(Labels)
    /\ \E s \in Stations :
          /\ ContentReturns(StationData(s), tabs[1].title.datetime)
          /\ tabs = TabItems(StationData(s), tabs[1].title.datetime,
                             tabs[1].title.name, tabs[1].title.station)

====
